---- MODULE Spec2Model ----
\* Semi-honest 1-out-of-2 oblivious transfer (ALSZ13, protocol 5.1) as
\* implemented in src/oblivious_transfer/alsz_13.rs: the three round
\* functions, their batched forms, and one protocol run built from them.
EXTENDS Integers, Sequences, FiniteSets, TLC

\* ---------------------------------------------------------------------------
\* Bounds of the model
\* ---------------------------------------------------------------------------
\* Order of the (cyclic) group standing for the ed25519 prime-order subgroup.
Q == 4
\* Digest length of the hash, in bytes (32 for SHA-256, scaled down).
DigestLen == 2
\* Largest byte value occurring in a message or a digest.
MaxByte == 1
\* Largest batch length.
MaxN == 2

\* ---------------------------------------------------------------------------
\* Group, scalars, bytes
\* ---------------------------------------------------------------------------
\* The values FE::new_random() can return.
FE == 0 .. (Q - 1)
\* The elements of the group, written additively as in the source.
GE == 0 .. (Q - 1)
\* GE::generator()
G == 1
\* Number of values of a u8.
U8 == 256

\* p * s  (impl Mul<FE> for GE): scalar multiplication.
GMul(p, s) == (p * s) % Q
\* p + q and p - q in the group.
GAdd(p, q) == (p + q) % Q
GSub(p, q) == (p + Q - q) % Q

\* k.get_element().to_bytes().to_vec(): canonical fixed-width little-endian
\* encoding of a group element.
to_bytes(p) == << p % U8, (p \div U8) % U8 >>

\* a ^ b on u8.
RECURSIVE BitXor(_, _)
BitXor(a, b) ==
  IF a = 0 THEN b
  ELSE IF b = 0 THEN a
  ELSE (((a % 2) + (b % 2)) % 2) + 2 * BitXor(a \div 2, b \div 2)

Min(m, n) == IF m <= n THEN m ELSE n

\* Mutant: the result runs to the end of the longer argument, whose surplus
\* bytes are passed through.
xor_longest(x, y) ==
  [i \in 1 .. (IF Len(x) >= Len(y) THEN Len(x) ELSE Len(y)) |->
     IF i > Len(x) THEN y[i]
     ELSE IF i > Len(y) THEN x[i]
     ELSE BitXor(x[i], y[i])]

\* x.iter().zip(y.iter()).map(|(&a, &b)| a ^ b).collect(): zip stops at the
\* shorter of the two.
xor(x, y) == [i \in 1 .. Min(Len(x), Len(y)) |-> BitXor(x[i], y[i])]

\* Sha256 absorbing its input (update): every input byte enters the state.
RECURSIVE Absorb(_)
Absorb(x) == IF x = << >> THEN 1 ELSE (Head(x) + 1) + 7 * Absorb(Tail(x))

\* Sha256 producing its digest (finalize): a fixed-length byte string that
\* is a many-to-one function of the absorbed input.
RECURSIVE Squeeze(_, _)
Squeeze(st, n) ==
  IF n = 0 THEN << >>
  ELSE << st % (MaxByte + 1) >> \o Squeeze(st \div (MaxByte + 1), n - 1)

\* fn h(x): the hash of a byte string.
h(x) == Squeeze((Absorb(x) * (Absorb(x) + 1)) \div 2, DigestLen)

\* ---------------------------------------------------------------------------
\* Results of a call: a value and the scalars it consumed from the random
\* source, or a panic (the failed assertion).
\* ---------------------------------------------------------------------------
NoError == "ok"
InvalidChoiceBit == "assertion failed: sigma == 0 || sigma == 1"

Ok(v, n) == [err |-> NoError, val |-> v, used |-> n]
Panic(e, n) == [err |-> e, val |-> << >>, used |-> n]

\* ---------------------------------------------------------------------------
\* The round functions.  `tape` is the sequence of scalars the random source
\* hands out to the successive FE::new_random() calls of the function.
\* ---------------------------------------------------------------------------
\* Mutant: the decoy element is the generator itself, not g * random.
first_round_fixed_decoy(sigma, tape) ==
  IF ~(sigma = 0 \/ sigma = 1) THEN Panic(InvalidChoiceBit, 0)
  ELSE LET a_i == tape[1]
           h_i == G
       IN IF sigma = 0 THEN Ok(<< a_i, GMul(G, a_i), h_i >>, 2)
          ELSE Ok(<< a_i, h_i, GMul(G, a_i) >>, 2)

\* Mutant: the two branches are swapped.
first_round_swapped(sigma, tape) ==
  IF ~(sigma = 0 \/ sigma = 1) THEN Panic(InvalidChoiceBit, 0)
  ELSE LET a_i == tape[1]
           h_i == GMul(G, tape[2])
       IN IF sigma = 0 THEN Ok(<< a_i, h_i, GMul(G, a_i) >>, 2)
          ELSE Ok(<< a_i, GMul(G, a_i), h_i >>, 2)

\* Mutant: no assertion on sigma.
first_round_unchecked(sigma, tape) ==
  LET a_i == tape[1]
      h_i == GMul(G, tape[2])
  IN IF sigma = 0 THEN Ok(<< a_i, GMul(G, a_i), h_i >>, 2)
     ELSE Ok(<< a_i, h_i, GMul(G, a_i) >>, 2)

\* Mutant: the scalars are drawn before sigma is checked.
first_round_late_check(sigma, tape) ==
  LET a_i == tape[1]
      h_i == GMul(G, tape[2])
  IN IF ~(sigma = 0 \/ sigma = 1) THEN Panic(InvalidChoiceBit, 2)
     ELSE IF sigma = 0 THEN Ok(<< a_i, GMul(G, a_i), h_i >>, 2)
     ELSE Ok(<< a_i, h_i, GMul(G, a_i) >>, 2)

first_round(sigma, tape) ==
  IF ~(sigma = 0 \/ sigma = 1) THEN Panic(InvalidChoiceBit, 0)
  ELSE LET a_i == tape[1]
           h_i == GMul(G, tape[2])
       IN IF sigma = 0 THEN Ok(<< a_i, GMul(G, a_i), h_i >>, 2)
          ELSE Ok(<< a_i, h_i, GMul(G, a_i) >>, 2)

\* Mutant: the second branch is blinded with a different scalar.
second_round_two_scalars(x_0, h_0, x_1, h_1, tape) ==
  LET r == tape[1]
      k_0 == GMul(h_0, r)
      k_1 == GMul(h_1, (r + 1) % Q)
  IN Ok(<< GMul(G, r), xor(h(to_bytes(k_0)), x_0), xor(h(to_bytes(k_1)), x_1) >>, 1)

second_round(x_0, h_0, x_1, h_1, tape) ==
  LET r == tape[1]
      u == GMul(G, r)
      k_0 == GMul(h_0, r)
      k_1 == GMul(h_1, r)
      kdf_0 == h(to_bytes(k_0))
      v_0 == xor(kdf_0, x_0)
      kdf_1 == h(to_bytes(k_1))
      v_1 == xor(kdf_1, x_1)
  IN Ok(<< u, v_0, v_1 >>, 1)

\* Mutant: the branch is selected the wrong way round.
output_computation_wrong_branch(sigma, a_i, u, v_0, v_1) ==
  IF ~(sigma = 0 \/ sigma = 1) THEN Panic(InvalidChoiceBit, 0)
  ELSE LET v_sigma == IF sigma = 0 THEN v_1 ELSE v_0
       IN Ok(xor(v_sigma, h(to_bytes(GMul(u, a_i)))), 0)

\* Mutant: the key is hashed from the ephemeral key alone.
output_computation_no_dh(sigma, a_i, u, v_0, v_1) ==
  IF ~(sigma = 0 \/ sigma = 1) THEN Panic(InvalidChoiceBit, 0)
  ELSE LET v_sigma == IF sigma = 0 THEN v_0 ELSE v_1
       IN Ok(xor(v_sigma, h(to_bytes(u))), 0)

\* Mutant: the unmasking runs over both ciphertexts at once and stops at
\* the shorter one.
output_computation_zip_both(sigma, a_i, u, v_0, v_1) ==
  IF ~(sigma = 0 \/ sigma = 1) THEN Panic(InvalidChoiceBit, 0)
  ELSE LET v_sigma == IF sigma = 0 THEN v_0 ELSE v_1
           x_sigma == xor(v_sigma, h(to_bytes(GMul(u, a_i))))
       IN Ok(SubSeq(x_sigma, 1, Min(Len(x_sigma), Min(Len(v_0), Len(v_1)))), 0)

\* Mutant: the result is computed as in the source, but a scalar is taken
\* from the random source on the way.
output_computation_draws(sigma, a_i, u, v_0, v_1) ==
  IF ~(sigma = 0 \/ sigma = 1) THEN Panic(InvalidChoiceBit, 0)
  ELSE LET v_sigma == IF sigma = 0 THEN v_0 ELSE v_1
       IN Ok(xor(v_sigma, h(to_bytes(GMul(u, a_i)))), 1)

output_computation(sigma, a_i, u, v_0, v_1) ==
  IF ~(sigma = 0 \/ sigma = 1) THEN Panic(InvalidChoiceBit, 0)
  ELSE LET v_sigma == IF sigma = 0 THEN v_0 ELSE v_1
           k_sigma == GMul(u, a_i)
           kdf_sigma == h(to_bytes(k_sigma))
           x_sigma == xor(v_sigma, kdf_sigma)
       IN Ok(x_sigma, 0)

\* ---------------------------------------------------------------------------
\* The batched forms
\* ---------------------------------------------------------------------------
Rest(tape, n) == SubSeq(tape, n + 1, Len(tape))
Column(tmp_vec, k) == [i \in 1 .. Len(tmp_vec) |-> tmp_vec[i][k]]
MinLen(vecs) == CHOOSE n \in {Len(vecs[i]) : i \in DOMAIN vecs} :
                  \A i \in DOMAIN vecs : n <= Len(vecs[i])
\* itertools::multizip: the tuples of the elements at the same index, up to
\* the end of the shortest sequence.
multizip(vecs) ==
  [i \in 1 .. MinLen(vecs) |-> [k \in DOMAIN vecs |-> vecs[k][i]]]

\* Mutant: every index is given the same scalars of the random source.
RECURSIVE first_round_map_shared(_, _)
first_round_map_shared(sigma_vec, tape) ==
  IF sigma_vec = << >> THEN Ok(<< >>, 0)
  ELSE LET r == first_round(Head(sigma_vec), tape)
       IN IF r.err # NoError THEN r
          ELSE LET rest == first_round_map_shared(Tail(sigma_vec), tape)
               IN IF rest.err # NoError
                  THEN Panic(rest.err, r.used + rest.used)
                  ELSE Ok(<< r.val >> \o rest.val, r.used + rest.used)

\* sigma_vec.iter().map(|&x| first_round(x)).collect(): one call per index,
\* in order, each taking the next scalars of the random source.
RECURSIVE first_round_map(_, _)
first_round_map(sigma_vec, tape) ==
  IF sigma_vec = << >> THEN Ok(<< >>, 0)
  ELSE LET r == first_round(Head(sigma_vec), tape)
       IN IF r.err # NoError THEN r
          ELSE LET rest == first_round_map(Tail(sigma_vec), Rest(tape, r.used))
               IN IF rest.err # NoError
                  THEN Panic(rest.err, r.used + rest.used)
                  ELSE Ok(<< r.val >> \o rest.val, r.used + rest.used)

first_round_batch(sigma_vec, tape) ==
  LET tmp_vec == first_round_map(sigma_vec, tape)
  IN IF tmp_vec.err # NoError THEN tmp_vec
     ELSE Ok(<< Column(tmp_vec.val, 1), Column(tmp_vec.val, 2),
                Column(tmp_vec.val, 3) >>, tmp_vec.used)

\* multizip(...).map(|(x_0, h_0, x_1, h_1)| second_round(...)).collect()
RECURSIVE second_round_map(_, _)
second_round_map(zipped, tape) ==
  IF zipped = << >> THEN Ok(<< >>, 0)
  ELSE LET t == Head(zipped)
           r == second_round(t[1], t[2], t[3], t[4], tape)
           rest == second_round_map(Tail(zipped), Rest(tape, r.used))
       IN Ok(<< r.val >> \o rest.val, r.used + rest.used)

second_round_batch(x_0_vec, h_0_vec, x_1_vec, h_1_vec, tape) ==
  LET tmp_vec == second_round_map(
                   multizip(<< x_0_vec, h_0_vec, x_1_vec, h_1_vec >>), tape)
  IN Ok(<< Column(tmp_vec.val, 1), Column(tmp_vec.val, 2),
           Column(tmp_vec.val, 3) >>, tmp_vec.used)

\* multizip(...).map(|(sigma, a_i, u, v_0, v_1)| output_computation(...))
RECURSIVE output_computation_map(_)
output_computation_map(zipped) ==
  IF zipped = << >> THEN Ok(<< >>, 0)
  ELSE LET t == Head(zipped)
           r == output_computation(t[1], t[2], t[3], t[4], t[5])
       IN IF r.err # NoError THEN r
          ELSE LET rest == output_computation_map(Tail(zipped))
               IN IF rest.err # NoError THEN rest
                  ELSE Ok(<< r.val >> \o rest.val, 0)

\* Mutant: the choice bit of the first index is used at every index.
output_computation_batch_first_bit(sigma_vec, a_i_vec, u_vec, v_0_vec, v_1_vec) ==
  output_computation_map(
    multizip(<< [i \in DOMAIN sigma_vec |-> sigma_vec[1]], a_i_vec, u_vec,
                v_0_vec, v_1_vec >>))

output_computation_batch(sigma_vec, a_i_vec, u_vec, v_0_vec, v_1_vec) ==
  output_computation_map(
    multizip(<< sigma_vec, a_i_vec, u_vec, v_0_vec, v_1_vec >>))

\* ---------------------------------------------------------------------------
\* The direct group-element variant: the messages are group elements and
\* the Sender blinds them in the group, v_b = h_b^r + x_b.
\* ---------------------------------------------------------------------------
direct_setup(sigma, tape) ==
  IF ~(sigma = 0 \/ sigma = 1) THEN Panic(InvalidChoiceBit, 0)
  ELSE LET a == tape[1]
           decoy == GMul(G, tape[2])
       IN IF sigma = 0 THEN Ok(<< a, GMul(G, a), decoy >>, 2)
          ELSE Ok(<< a, decoy, GMul(G, a) >>, 2)

direct_respond(x_0, h_0, x_1, h_1, tape) ==
  LET r == tape[1]
  IN Ok(<< GMul(G, r), GAdd(GMul(h_0, r), x_0), GAdd(GMul(h_1, r), x_1) >>, 1)

\* Mutant: the shared key is added instead of subtracted.
direct_recover_added(sigma, a, u, v_0, v_1) ==
  IF ~(sigma = 0 \/ sigma = 1) THEN Panic(InvalidChoiceBit, 0)
  ELSE Ok(GAdd(IF sigma = 0 THEN v_0 ELSE v_1, GMul(u, a)), 0)

direct_recover(sigma, a, u, v_0, v_1) ==
  IF ~(sigma = 0 \/ sigma = 1) THEN Panic(InvalidChoiceBit, 0)
  ELSE Ok(GSub(IF sigma = 0 THEN v_0 ELSE v_1, GMul(u, a)), 0)

\* ---------------------------------------------------------------------------
\* Inputs
\* ---------------------------------------------------------------------------
\* Values of the u8 argument sigma that are tried: the two bits and one
\* value that is not a bit.
SigmaIn == {0, 1, 2}
Byte == 0 .. MaxByte
\* Messages of digest length.
ValidMsgs == [1 .. DigestLen -> Byte]
\* Messages one byte shorter and one byte longer than a digest.
ShortMsgs == {[i \in 1 .. (DigestLen - 1) |-> b] : b \in Byte}
LongMsgs == {[i \in 1 .. (DigestLen + 1) |-> b] : b \in Byte}
Msgs == ValidMsgs \cup ShortMsgs \cup LongMsgs
Tapes(n) == [1 .. n -> FE]

\* Inputs of the batched runs.
Bits == {0, 1}
BatchFE == {1, Q - 1}
BatchTapes(n) == [1 .. n -> BatchFE]
ZeroMsg == [i \in 1 .. DigestLen |-> 0]
TopMsg == [i \in 1 .. DigestLen |-> MaxByte]
BatchPairs == {<< ZeroMsg, TopMsg >>, << TopMsg, ZeroMsg >>}
Max(m, n) == IF m >= n THEN m ELSE n

\* ---------------------------------------------------------------------------
\* State of one protocol run
\* ---------------------------------------------------------------------------
VARIABLES
  op,        \* the last function called
  err,       \* NoError, or the panic of the last call
  draws,     \* the scalars the last call took from the random source
  sigma,     \* Receiver: choice bit given to first_round
  a_i,       \* Receiver: private scalar
  h_0, h_1,  \* round-1 message
  x_0, x_1,  \* Sender: the two messages
  u, v_0, v_1, \* round-2 message
  sigma_out, \* Receiver: choice bit given to output_computation
  x_out      \* Receiver: the recovered message

vars == << op, err, draws, sigma, a_i, h_0, h_1, x_0, x_1, u, v_0, v_1,
           sigma_out, x_out >>

None == << >>

Init ==
  /\ op = "none" /\ err = NoError /\ draws = << >>
  /\ sigma = None /\ a_i = None /\ h_0 = None /\ h_1 = None
  /\ x_0 = None /\ x_1 = None /\ u = None /\ v_0 = None /\ v_1 = None
  /\ sigma_out = None /\ x_out = None

\* The Receiver calls first_round(sigma).
FirstRound ==
  /\ op = "none"
  /\ \E s \in SigmaIn, tape \in Tapes(2) :
       LET res == first_round(s, tape)
       IN /\ op' = "first_round"
          /\ err' = res.err
          /\ draws' = SubSeq(tape, 1, res.used)
          /\ sigma' = s
          /\ IF res.err = NoError
             THEN a_i' = res.val[1] /\ h_0' = res.val[2] /\ h_1' = res.val[3]
             ELSE UNCHANGED << a_i, h_0, h_1 >>
  /\ UNCHANGED << x_0, x_1, u, v_0, v_1, sigma_out, x_out >>

\* The Sender calls second_round on the round-1 message and its messages.
SecondRound ==
  /\ op = "first_round" /\ err = NoError
  /\ \E m_0 \in Msgs, m_1 \in Msgs, tape \in Tapes(1) :
       LET res == second_round(m_0, h_0, m_1, h_1, tape)
       IN /\ op' = "second_round"
          /\ err' = res.err
          /\ draws' = SubSeq(tape, 1, res.used)
          /\ x_0' = m_0 /\ x_1' = m_1
          /\ u' = res.val[1] /\ v_0' = res.val[2] /\ v_1' = res.val[3]
  /\ UNCHANGED << sigma, a_i, h_0, h_1, sigma_out, x_out >>

\* The Receiver calls output_computation on the round-2 message, with a
\* choice bit that may or may not be the one it gave to first_round.
OutputComputation ==
  /\ op = "second_round" /\ err = NoError
  /\ \E s \in SigmaIn :
       LET res == output_computation(s, a_i, u, v_0, v_1)
       IN /\ op' = "output_computation"
          /\ err' = res.err
          /\ draws' = << >>
          /\ sigma_out' = s
          /\ IF res.err = NoError THEN x_out' = res.val ELSE UNCHANGED x_out
  /\ UNCHANGED << sigma, a_i, h_0, h_1, x_0, x_1, u, v_0, v_1 >>

Next == FirstRound \/ SecondRound \/ OutputComputation

Spec == Init /\ [][Next]_vars

\* ---------------------------------------------------------------------------
\* One batched protocol run; every variable holds the vector of its values.
\* ---------------------------------------------------------------------------
FirstRoundBatch ==
  /\ op = "none"
  /\ \E n \in 0 .. MaxN :
       \E sigma_vec \in [1 .. n -> Bits], tape \in BatchTapes(2 * n) :
         LET res == first_round_batch(sigma_vec, tape)
         IN /\ op' = "first_round_batch"
            /\ err' = res.err
            /\ draws' = SubSeq(tape, 1, res.used)
            /\ sigma' = sigma_vec
            /\ IF res.err = NoError
               THEN a_i' = res.val[1] /\ h_0' = res.val[2] /\ h_1' = res.val[3]
               ELSE UNCHANGED << a_i, h_0, h_1 >>
  /\ UNCHANGED << x_0, x_1, u, v_0, v_1, sigma_out, x_out >>

\* The Sender's two message vectors need not be as long as the round-1
\* vectors, nor as long as each other.
SecondRoundBatch ==
  /\ op = "first_round_batch" /\ err = NoError
  /\ \E n_0 \in 0 .. MaxN, n_1 \in 0 .. MaxN :
       \E pairs \in [1 .. Max(n_0, n_1) -> BatchPairs],
          tape \in BatchTapes(Min(Len(h_0), Min(n_0, n_1))) :
         LET x_0_vec == [i \in 1 .. n_0 |-> pairs[i][1]]
             x_1_vec == [i \in 1 .. n_1 |-> pairs[i][2]]
             res == second_round_batch(x_0_vec, h_0, x_1_vec, h_1, tape)
         IN /\ op' = "second_round_batch"
            /\ err' = res.err
            /\ draws' = SubSeq(tape, 1, res.used)
            /\ x_0' = x_0_vec /\ x_1' = x_1_vec
            /\ u' = res.val[1] /\ v_0' = res.val[2] /\ v_1' = res.val[3]
  /\ UNCHANGED << sigma, a_i, h_0, h_1, sigma_out, x_out >>

\* The Receiver calls output_computation_batch with its own vectors and
\* the round-2 vectors it received.
OutputComputationBatch ==
  /\ op = "second_round_batch" /\ err = NoError
  /\ LET res == output_computation_batch(sigma, a_i, u, v_0, v_1)
     IN /\ op' = "output_computation_batch"
        /\ err' = res.err
        /\ draws' = << >>
        /\ sigma_out' = sigma
        /\ IF res.err = NoError THEN x_out' = res.val ELSE UNCHANGED x_out
  /\ UNCHANGED << sigma, a_i, h_0, h_1, x_0, x_1, u, v_0, v_1 >>

NextBatch == FirstRoundBatch \/ SecondRoundBatch \/ OutputComputationBatch

SpecBatch == Init /\ [][NextBatch]_vars

\* ---------------------------------------------------------------------------
\* One protocol run of the direct group-element variant.
\* ---------------------------------------------------------------------------
DirectSetup ==
  /\ op = "none"
  /\ \E s \in SigmaIn, tape \in Tapes(2) :
       LET res == direct_setup(s, tape)
       IN /\ op' = "setup"
          /\ err' = res.err
          /\ draws' = SubSeq(tape, 1, res.used)
          /\ sigma' = s
          /\ IF res.err = NoError
             THEN a_i' = res.val[1] /\ h_0' = res.val[2] /\ h_1' = res.val[3]
             ELSE UNCHANGED << a_i, h_0, h_1 >>
  /\ UNCHANGED << x_0, x_1, u, v_0, v_1, sigma_out, x_out >>

DirectRespond ==
  /\ op = "setup" /\ err = NoError
  /\ \E m_0 \in GE, m_1 \in GE, tape \in Tapes(1) :
       LET res == direct_respond(m_0, h_0, m_1, h_1, tape)
       IN /\ op' = "respond"
          /\ err' = res.err
          /\ draws' = SubSeq(tape, 1, res.used)
          /\ x_0' = m_0 /\ x_1' = m_1
          /\ u' = res.val[1] /\ v_0' = res.val[2] /\ v_1' = res.val[3]
  /\ UNCHANGED << sigma, a_i, h_0, h_1, sigma_out, x_out >>

DirectRecover ==
  /\ op = "respond" /\ err = NoError
  /\ \E s \in SigmaIn :
       LET res == direct_recover(s, a_i, u, v_0, v_1)
       IN /\ op' = "recover"
          /\ err' = res.err
          /\ draws' = << >>
          /\ sigma_out' = s
          /\ IF res.err = NoError THEN x_out' = res.val ELSE UNCHANGED x_out
  /\ UNCHANGED << sigma, a_i, h_0, h_1, x_0, x_1, u, v_0, v_1 >>

NextDirect == DirectSetup \/ DirectRespond \/ DirectRecover

SpecDirect == Init /\ [][NextDirect]_vars

\* ---------------------------------------------------------------------------
\* Two protocol runs in one process, their calls interleaved in any order;
\* every variable holds, per run, what it holds in a single run.
\* ---------------------------------------------------------------------------
Runs == {1, 2}

InitRuns ==
  /\ op = [i \in Runs |-> "none"] /\ err = [i \in Runs |-> NoError]
  /\ draws = [i \in Runs |-> << >>]
  /\ sigma = [i \in Runs |-> None] /\ a_i = [i \in Runs |-> None]
  /\ h_0 = [i \in Runs |-> None] /\ h_1 = [i \in Runs |-> None]
  /\ x_0 = [i \in Runs |-> None] /\ x_1 = [i \in Runs |-> None]
  /\ u = [i \in Runs |-> None] /\ v_0 = [i \in Runs |-> None]
  /\ v_1 = [i \in Runs |-> None]
  /\ sigma_out = [i \in Runs |-> None] /\ x_out = [i \in Runs |-> None]

RunFirstRound(i) ==
  /\ op[i] = "none"
  /\ \E s \in SigmaIn, tape \in BatchTapes(2) :
       LET res == first_round(s, tape)
       IN /\ op' = [op EXCEPT ![i] = "first_round"]
          /\ err' = [err EXCEPT ![i] = res.err]
          /\ draws' = [draws EXCEPT ![i] = SubSeq(tape, 1, res.used)]
          /\ sigma' = [sigma EXCEPT ![i] = s]
          /\ IF res.err = NoError
             THEN /\ a_i' = [a_i EXCEPT ![i] = res.val[1]]
                  /\ h_0' = [h_0 EXCEPT ![i] = res.val[2]]
                  /\ h_1' = [h_1 EXCEPT ![i] = res.val[3]]
             ELSE UNCHANGED << a_i, h_0, h_1 >>
  /\ UNCHANGED << x_0, x_1, u, v_0, v_1, sigma_out, x_out >>

RunSecondRound(i) ==
  /\ op[i] = "first_round" /\ err[i] = NoError
  /\ \E pair \in BatchPairs, tape \in BatchTapes(1) :
       LET res == second_round(pair[1], h_0[i], pair[2], h_1[i], tape)
       IN /\ op' = [op EXCEPT ![i] = "second_round"]
          /\ err' = [err EXCEPT ![i] = res.err]
          /\ draws' = [draws EXCEPT ![i] = SubSeq(tape, 1, res.used)]
          /\ x_0' = [x_0 EXCEPT ![i] = pair[1]]
          /\ x_1' = [x_1 EXCEPT ![i] = pair[2]]
          /\ u' = [u EXCEPT ![i] = res.val[1]]
          /\ v_0' = [v_0 EXCEPT ![i] = res.val[2]]
          /\ v_1' = [v_1 EXCEPT ![i] = res.val[3]]
  /\ UNCHANGED << sigma, a_i, h_0, h_1, sigma_out, x_out >>

\* The random source is within reach of every function; what a call takes
\* from it is what the function reports as used.
RunOutputComputation(i) ==
  /\ op[i] = "second_round" /\ err[i] = NoError
  /\ \E s \in SigmaIn, tape \in BatchTapes(1) :
       LET res == output_computation(s, a_i[i], u[i], v_0[i], v_1[i])
       IN /\ op' = [op EXCEPT ![i] = "output_computation"]
          /\ err' = [err EXCEPT ![i] = res.err]
          /\ draws' = [draws EXCEPT ![i] = SubSeq(tape, 1, res.used)]
          /\ sigma_out' = [sigma_out EXCEPT ![i] = s]
          /\ IF res.err = NoError
             THEN x_out' = [x_out EXCEPT ![i] = res.val]
             ELSE UNCHANGED x_out
  /\ UNCHANGED << sigma, a_i, h_0, h_1, x_0, x_1, u, v_0, v_1 >>

NextRuns ==
  \E i \in Runs :
    RunFirstRound(i) \/ RunSecondRound(i) \/ RunOutputComputation(i)

SpecRuns == InitRuns /\ [][NextRuns]_vars
\* ---------------------------------------------------------------------------
\* Properties of one protocol run (specification Spec)
\* ---------------------------------------------------------------------------
IsMessage(m) == Len(m) = DigestLen
Completed == op = "output_computation" /\ err = NoError
\* The Sender's message of branch b, and the two round-1 elements by branch.
X(b) == IF b = 0 THEN x_0 ELSE x_1
H(b) == IF b = 0 THEN h_0 ELSE h_1
\* The ephemeral scalar behind u, and the KDF mask the Sender put on branch b.
SenderScalar == CHOOSE r \in FE : GMul(G, r) = u
Mask(b) == h(to_bytes(GMul(H(b), SenderScalar)))

\* C1: for sigma in {0,1} and messages x_0, x_1 of digest length, whatever
\* scalars are drawn, first_round(sigma), second_round(x_0,h_0,x_1,h_1) and
\* output_computation(sigma,a,u,v_0,v_1) return exactly x_sigma.
C1_RoundTrip ==
  (Completed /\ sigma_out = sigma /\ IsMessage(x_0) /\ IsMessage(x_1))
    => x_out = X(sigma)

C1_Witness ==
  /\ Completed /\ sigma_out = sigma /\ sigma = 1
  /\ IsMessage(x_0) /\ IsMessage(x_1) /\ x_0 # x_1
  /\ h_0 # h_1 /\ u # 0
  /\ x_out = x_1

\* C3: first_round(sigma) and output_computation(sigma, ...) with sigma
\* outside {0,1} fail with InvalidChoiceBit and return nothing, whatever the
\* other arguments are.
C3_InvalidChoiceBit ==
  /\ (op = "first_round" /\ sigma \notin {0, 1})
       => (err = InvalidChoiceBit /\ a_i = None /\ h_0 = None /\ h_1 = None)
  /\ (op = "output_computation" /\ sigma_out \notin {0, 1})
       => (err = InvalidChoiceBit /\ x_out = None)

C3_Witness ==
  /\ op = "output_computation" /\ sigma_out = 2 /\ err = InvalidChoiceBit
  /\ IsMessage(x_0) /\ v_0 # v_1

\* C4: the round-1 message does not determine the choice bit: every pair
\* (h_0,h_1) that first_round(sigma) produces is also produced by
\* first_round(1 - sigma) for some draw of its scalars.
C4_ReceiverPrivacy ==
  (op = "first_round" /\ err = NoError)
    => \E tape \in Tapes(2) :
         LET other == first_round(1 - sigma, tape)
         IN other.err = NoError /\ other.val[2] = h_0 /\ other.val[3] = h_1

C4_Witness ==
  op = "first_round" /\ err = NoError /\ sigma = 0 /\ h_0 # h_1 /\ h_0 # 0

\* C5 as stated: in every result of first_round, h_sigma = g^a and
\* h_(1-sigma) is not g^a.
C5_ExactlyOneKey ==
  (op = "first_round" /\ err = NoError)
    => (H(sigma) = GMul(G, a_i) /\ H(1 - sigma) # GMul(G, a_i))

\* C5 amended: h_sigma = g^a and h_(1-sigma) = g^b for the second scalar b
\* drawn; h_(1-sigma) differs from g^a exactly when b differs from a.
C5_KeyAndDecoy ==
  (op = "first_round" /\ err = NoError)
    => /\ Len(draws) = 2 /\ a_i = draws[1]
       /\ H(sigma) = GMul(G, a_i)
       /\ H(1 - sigma) = GMul(G, draws[2])
       /\ (H(1 - sigma) # GMul(G, a_i)) <=> (draws[2] # a_i)

C5_Witness ==
  /\ op = "first_round" /\ err = NoError /\ sigma = 1
  /\ h_1 = GMul(G, a_i) /\ h_0 # h_1 /\ a_i # 0

\* C6: second_round draws one ephemeral scalar r and uses it for all three
\* outputs: u = g^r, v_0 = KDF(encode(h_0^r)) XOR x_0 and
\* v_1 = KDF(encode(h_1^r)) XOR x_1.
C6_SameScalar ==
  (op = "second_round")
    => /\ Len(draws) = 1
       /\ u = GMul(G, draws[1])
       /\ v_0 = xor(h(to_bytes(GMul(h_0, draws[1]))), x_0)
       /\ v_1 = xor(h(to_bytes(GMul(h_1, draws[1]))), x_1)

C6_Witness ==
  /\ op = "second_round" /\ draws = << 1 >> /\ h_0 # h_1
  /\ IsMessage(x_0) /\ IsMessage(x_1)
  /\ xor(v_0, x_0) # xor(v_1, x_1)

\* C7: second_round with a message whose length is not the digest length is
\* rejected with PayloadLengthMismatch and produces no ciphertexts.
C7_PayloadLengthMismatch ==
  (op = "second_round" /\ ~(IsMessage(x_0) /\ IsMessage(x_1)))
    => (err = "PayloadLengthMismatch" /\ v_0 = None /\ v_1 = None)

\* C10 as stated: with the flipped bit, the result is neither x_(1-sigma)
\* nor x_sigma unless the KDF masks of the two branch keys collide.
C10_WrongBitNeverPlaintext ==
  (Completed /\ sigma_out = 1 - sigma /\ IsMessage(x_0) /\ IsMessage(x_1)
     /\ Mask(0) # Mask(1))
    => (x_out # X(1 - sigma) /\ x_out # X(sigma))

\* C10 amended: for messages of digest length, with the flipped bit the
\* result is x_(1-sigma) XOR mask_0 XOR mask_1; it is x_(1-sigma) exactly
\* when the two masks collide, and it is x_sigma exactly when x_0 XOR x_1
\* equals the XOR of the two masks.
C10_WrongBit ==
  (Completed /\ sigma_out = 1 - sigma /\ IsMessage(x_0) /\ IsMessage(x_1))
    => /\ x_out = xor(xor(X(1 - sigma), Mask(0)), Mask(1))
       /\ (x_out = X(1 - sigma)) <=> (Mask(0) = Mask(1))
       /\ (x_out = X(sigma)) <=> (xor(x_0, x_1) = xor(Mask(0), Mask(1)))

C10_Witness ==
  /\ Completed /\ sigma = 0 /\ sigma_out = 1
  /\ IsMessage(x_0) /\ IsMessage(x_1) /\ x_0 # x_1
  /\ Mask(0) # Mask(1)
  /\ x_out # x_1 /\ x_out # x_0

\* ---------------------------------------------------------------------------
\* Properties of one batched run (specification SpecBatch)
\* ---------------------------------------------------------------------------
CompletedBatch == op = "output_computation_batch" /\ err = NoError
EqualLengths == Len(x_0) = Len(sigma) /\ Len(x_1) = Len(sigma)
\* The result of the single-instance pipeline on (s, m_0, m_1) when the
\* random source hands out tape_1 to first_round and tape_2 to second_round.
Pipeline(s, m_0, m_1, tape_1, tape_2) ==
  LET r1 == first_round(s, tape_1).val
      r2 == second_round(m_0, r1[2], m_1, r1[3], tape_2).val
  IN [a_i |-> r1[1], h_0 |-> r1[2], h_1 |-> r1[3],
      u |-> r2[1], v_0 |-> r2[2], v_1 |-> r2[3],
      x |-> output_computation(s, r1[1], r2[1], r2[2], r2[3]).val]

\* C2: for equal-length inputs of length N, first_round_batch, then
\* second_round_batch, then output_computation_batch return N elements, and
\* the element at every index i is the result of the single-instance
\* pipeline on (sigma_vec[i], x_0_vec[i], x_1_vec[i]): x_0_vec[i] when
\* sigma_vec[i] = 0 and x_1_vec[i] when sigma_vec[i] = 1.
C2_BatchedCorrectness ==
  (CompletedBatch /\ EqualLengths)
    => /\ Len(x_out) = Len(sigma)
       /\ \A i \in DOMAIN sigma :
            /\ \E tape_1 \in BatchTapes(2), tape_2 \in BatchTapes(1) :
                 LET one == Pipeline(sigma[i], x_0[i], x_1[i], tape_1, tape_2)
                 IN /\ one.a_i = a_i[i] /\ one.h_0 = h_0[i] /\ one.h_1 = h_1[i]
                    /\ one.u = u[i] /\ one.v_0 = v_0[i] /\ one.v_1 = v_1[i]
                    /\ one.x = x_out[i]
            /\ x_out[i] = (IF sigma[i] = 0 THEN x_0[i] ELSE x_1[i])

C2_Witness ==
  /\ CompletedBatch /\ EqualLengths /\ sigma = << 0, 1 >>
  /\ x_0[1] # x_0[2] /\ u[1] # u[2] /\ a_i[1] # a_i[2]
  /\ x_out = << x_0[1], x_1[2] >>

\* C8: second_round_batch and output_computation_batch called with
\* sequences of unequal lengths are rejected with an arity error and never
\* return a result computed from a truncated subset of the indices.
C8_ArityError ==
  /\ (op = "second_round_batch"
        /\ ~(Len(x_0) = Len(h_0) /\ Len(x_1) = Len(h_0) /\ Len(h_1) = Len(h_0)))
       => (err = "ArityError" /\ u = None)
  /\ (op = "output_computation_batch"
        /\ ~(Len(a_i) = Len(sigma) /\ Len(u) = Len(sigma)
               /\ Len(v_0) = Len(sigma) /\ Len(v_1) = Len(sigma)))
       => (err = "ArityError" /\ x_out = None)

\* ---------------------------------------------------------------------------
\* Properties of the direct variant (specification SpecDirect)
\* ---------------------------------------------------------------------------
\* C9: in the direct group-element variant, respond computes
\* v_b = h_b^r + x_b and recover computes v_sigma - u^a, and for sigma in
\* {0,1} and group elements x_0, x_1 the pipeline setup, respond, recover
\* returns x_sigma, whatever the other message is.
C9_DirectRoundTrip ==
  /\ (op = "respond")
       => /\ v_0 = GAdd(GMul(h_0, draws[1]), x_0)
          /\ v_1 = GAdd(GMul(h_1, draws[1]), x_1)
  /\ (op = "recover" /\ err = NoError)
       => x_out = GSub(IF sigma_out = 0 THEN v_0 ELSE v_1, GMul(u, a_i))
  /\ (op = "recover" /\ err = NoError /\ sigma_out = sigma)
       => /\ x_out = X(sigma)
          /\ \A y \in GE :
               LET m_0 == IF sigma = 0 THEN x_0 ELSE y
                   m_1 == IF sigma = 0 THEN y ELSE x_1
                   alt == direct_respond(m_0, h_0, m_1, h_1, << SenderScalar >>).val
               IN direct_recover(sigma, a_i, alt[1], alt[2], alt[3]).val = X(sigma)

C9_Witness ==
  /\ op = "recover" /\ err = NoError /\ sigma_out = sigma /\ sigma = 1
  /\ x_0 # x_1 /\ u # 0 /\ a_i # 0 /\ v_1 # x_1
  /\ x_out = x_1

\* ---------------------------------------------------------------------------
\* Order of the check and the draws in first_round (specification Spec)
\* ---------------------------------------------------------------------------
\* C11: first_round checks sigma before it draws any scalar: a call with an
\* invalid sigma fails having consumed no randomness (and a call with a
\* valid sigma consumes its two scalars).
C11_CheckBeforeDraw ==
  (op = "first_round")
    => /\ (sigma \notin {0, 1}) => (err = InvalidChoiceBit /\ draws = << >>)
       /\ (sigma \in {0, 1}) => (err = NoError /\ Len(draws) = 2)

C11_Witness ==
  op = "first_round" /\ sigma = 2 /\ err = InvalidChoiceBit /\ draws = << >>

\* ---------------------------------------------------------------------------
\* Per-index independence of the batched forms (specification SpecBatch)
\* ---------------------------------------------------------------------------
\* C12: in first_round_batch every index i takes its own two scalars from
\* the random source (the draws 2i-1 and 2i) and in second_round_batch its
\* own one (the draw i); no draw serves two indices, and the output at
\* index i is the single-instance function of the inputs and the draws of
\* index i alone.
C12_PerIndexIndependence ==
  /\ (op = "first_round_batch" /\ err = NoError)
       => /\ Len(draws) = 2 * Len(sigma)
          /\ Len(a_i) = Len(sigma) /\ Len(h_0) = Len(sigma) /\ Len(h_1) = Len(sigma)
          /\ \A i \in DOMAIN sigma :
               << a_i[i], h_0[i], h_1[i] >>
                 = first_round(sigma[i], << draws[2 * i - 1], draws[2 * i] >>).val
  /\ (op = "second_round_batch")
       => /\ Len(draws) = Len(u)
          /\ Len(v_0) = Len(u) /\ Len(v_1) = Len(u)
          /\ \A i \in DOMAIN u :
               << u[i], v_0[i], v_1[i] >>
                 = second_round(x_0[i], h_0[i], x_1[i], h_1[i], << draws[i] >>).val

C12_Witness ==
  /\ op = "second_round_batch" /\ Len(u) = 2
  /\ draws[1] # draws[2] /\ a_i[1] # a_i[2] /\ sigma[1] # sigma[2]
  /\ u[1] # u[2] /\ x_0[1] = x_0[2] /\ v_0[1] # v_0[2]

\* ---------------------------------------------------------------------------
\* Statelessness (specification SpecRuns)
\* ---------------------------------------------------------------------------
\* What run i holds.
RunState(i) ==
  << op[i], err[i], draws[i], sigma[i], a_i[i], h_0[i], h_1[i], x_0[i],
     x_1[i], u[i], v_0[i], v_1[i], sigma_out[i], x_out[i] >>
RunUntouched(i) ==
  RunState(i) = << "none", NoError, << >>, None, None, None, None, None,
                   None, None, None, None, None, None >>
\* The transcript of run i is one the single-instance functions produce
\* from run i's own inputs.
RunOwnTranscript(i) ==
  \E tape_1 \in BatchTapes(2), tape_2 \in BatchTapes(1) :
    LET one == Pipeline(sigma[i], x_0[i], x_1[i], tape_1, tape_2)
    IN /\ one.a_i = a_i[i] /\ one.h_0 = h_0[i] /\ one.h_1 = h_1[i]
       /\ one.u = u[i] /\ one.v_0 = v_0[i] /\ one.v_1 = v_1[i]
RunsStateless ==
  \A i \in Runs :
    /\ (op[i] = "none") => RunUntouched(i)
    /\ (op[i] \in {"second_round", "output_computation"}) => RunOwnTranscript(i)
    /\ (op[i] = "output_computation") => draws[i] = << >>
    /\ (op[i] = "output_computation" /\ err[i] = NoError)
         => /\ x_out[i] = xor(IF sigma_out[i] = 0 THEN v_0[i] ELSE v_1[i],
                              h(to_bytes(GMul(u[i], a_i[i]))))
            /\ (sigma_out[i] = sigma[i])
                 => x_out[i] = (IF sigma[i] = 0 THEN x_0[i] ELSE x_1[i])
\* A call made in one run leaves everything of the other run as it was.
RunsFrame ==
  \A i \in Runs : (op'[i] = op[i]) => (RunState(i)' = RunState(i))

\* C13: no round function reads or changes anything that persists between
\* calls, apart from taking scalars from the random source: a call changes
\* only the results of its own run, output_computation takes no scalar and
\* returns the function of its arguments, and the result of a run is the
\* one its own inputs give, whatever calls of another run come before or
\* in between.
C13_Stateless == [] RunsStateless /\ [][RunsFrame]_vars

C13_Witness ==
  /\ op[1] = "output_computation" /\ err[1] = NoError
  /\ op[2] = "second_round"
  /\ sigma[1] = 0 /\ sigma_out[1] = 0 /\ sigma[2] = 1
  /\ a_i[1] # a_i[2] /\ u[1] # u[2] /\ x_0[1] # x_0[2]
  /\ x_out[1] = x_0[1]

\* ---------------------------------------------------------------------------
\* The non-chosen ciphertext and messages of other lengths (specification
\* Spec)
\* ---------------------------------------------------------------------------
\* Byte strings put in the place of the non-chosen ciphertext.
Replacements == {<< >>, TopMsg, v_0, v_1} \cup LongMsgs

\* C14: the result of output_computation(sigma, a, u, v_0, v_1) does not
\* depend on the non-chosen ciphertext: with v_(1-sigma) replaced by any
\* other byte string the returned value is the same.
C14_IgnoresOtherCiphertext ==
  Completed
    => \A w \in Replacements :
         LET alt == IF sigma_out = 0
                    THEN output_computation(sigma_out, a_i, u, v_0, w)
                    ELSE output_computation(sigma_out, a_i, u, w, v_1)
         IN alt.err = NoError /\ alt.val = x_out

C14_Witness ==
  /\ Completed /\ sigma_out = 0 /\ sigma = 0
  /\ Len(v_0) = DigestLen /\ Len(v_1) < DigestLen /\ x_out = x_0

Prefix(m, n) == SubSeq(m, 1, Min(Len(m), n))

\* C15: for a message x_b whose length L is not the digest length,
\* second_round raises no error and returns v_b of length min(L, digest
\* length); the pipeline then returns the first min(L, digest length) bytes
\* of x_sigma: all of x_sigma when L is smaller, a digest-length prefix of
\* it when L is larger.
C15_TruncatedRoundTrip ==
  /\ (op = "second_round")
       => /\ err = NoError
          /\ Len(v_0) = Min(Len(x_0), DigestLen)
          /\ Len(v_1) = Min(Len(x_1), DigestLen)
  /\ (Completed /\ sigma_out = sigma)
       => /\ x_out = Prefix(X(sigma), DigestLen)
          /\ (Len(X(sigma)) <= DigestLen) => x_out = X(sigma)
          /\ (Len(X(sigma)) > DigestLen)
               => (Len(x_out) = DigestLen /\ x_out # X(sigma))

C15_Witness ==
  /\ Completed /\ sigma_out = sigma /\ sigma = 1
  /\ Len(x_1) = DigestLen + 1 /\ Len(x_0) = DigestLen - 1
  /\ Len(v_1) = DigestLen /\ Len(v_0) = DigestLen - 1
  /\ x_out = SubSeq(x_1, 1, DigestLen) /\ x_out # x_1

====
